---- MODULE Spec2Model ----
(***************************************************************************)
(* A model of packages/@aws-cdk/pipelines/lib/pipeline.ts: the CdkPipeline *)
(* construct (stage list, deploy-order validation, stack-output artifacts) *)
(* and its AssetPublishing helper (publishers, asset roles, Assets stage). *)
(***************************************************************************)
EXTENDS Integers, Sequences, FiniteSets, TLC

(***************************************************************************)
(* Bounds of the model.                                                    *)
(***************************************************************************)
\* Deploy actions added to the pipeline.
MaxDeploy == 3
\* addPublishAssetAction calls that return; calls are made until then.
MaxRequests == 3
\* addPublishAssetAction calls that return in a planning session.
MaxSessionRequests == 2
\* addPublishAssetAction calls that return, where stack outputs are requested too.
MaxRequestsWithOutputs == 1
\* addPublishAssetAction calls that return while the stage list is built.
MaxPlanRequests == 1
\* Deploy actions added to the pipeline, where stack outputs are requested too.
MaxDeployWithOutputs == 1

(***************************************************************************)
(* Input universes.                                                        *)
(***************************************************************************)
\* Stack artifact ids (units).
Units == {"A", "B", "C"}
\* The dependencyStackArtifactIds a deploy action is created with.
DepLists == { <<>>, <<"A">>, <<"B">>, <<"A", "B">> }
\* Run orders of a deploy action's prepare and execute steps.
RunOrders == 1..2
\* The stage names callers pass to addStage, in the order they pass them.
UserStageNames == <<"S1", "S2">>
\* Stages of a caller-supplied codePipeline, in order.
PreStageNames == <<"Pre1", "Pre2">>
AssetIds == {"asset-1", "asset-2", "asset-3"}
Selectors == {"d1", "d2"}
FILE == "file"
DOCKER_IMAGE == "docker-image"
AssetTypes == {FILE, DOCKER_IMAGE}

StageNames ==
  {"Source", "Build", "UpdatePipeline", "Assets"}
    \cup {UserStageNames[i] : i \in DOMAIN UserStageNames}
    \cup {PreStageNames[i] : i \in DOMAIN PreStageNames}

\* The absolute cloud assembly directory, as path segments.
myCxAsmRoot == <<"w", "cdk.out">>
\* Absolute asset manifest paths, as path segments: a file in the assembly
\* directory, a file beside the assembly directory, and the directory that
\* holds the assembly directory.
ManifestPaths ==
  { <<"w", "cdk.out", "m.json">>,
    <<"w", "m.json">>,
    <<"w">> }
\* Absolute asset manifest paths of one asset built from two contents: the
\* manifest lies in a directory named after the content hash.
ContentPaths ==
  { <<"w", "cdk.out", "asset.h1", "m.json">>,
    <<"w", "cdk.out", "m.json">> }

VARIABLES
  pc,              \* "new" | "ready" | "failed" | "validated"
  stages,          \* codepipeline.Pipeline._stages: stage names in order
  stageActions,    \* the actions of every stage object, in addAction order
  outputArtifacts, \* CdkPipeline._outputArtifacts: unit -> Artifact object, 0 if unset
  artifactsMade,   \* number of codepipeline.Artifact objects allocated
  heap,            \* the PublishAssetsAction objects, in creation order
  publishers,      \* AssetPublishing.publishers: asset id -> heap index, 0 if unset
  assetRoles,      \* AssetPublishing.assetRoles: asset type -> role object, 0 if unset
  rolesMade,       \* number of iam.Role objects created
  fileAssetCtr,    \* AssetPublishing._fileAssetCtr
  dockerAssetCtr,  \* AssetPublishing._dockerAssetCtr
  ret,             \* what validate() returned
  warnings,        \* warnings added through Annotations.of(this)
  last,            \* the most recent call: operation, arguments, outcome
  history          \* the addPublishAssetAction calls that returned, in call order

vars ==
  << pc, stages, stageActions, outputArtifacts, artifactsMade, heap,
     publishers, assetRoles, rolesMade, fileAssetCtr, dockerAssetCtr,
     ret, warnings, last, history >>

assetVars ==
  << heap, publishers, assetRoles, rolesMade, fileAssetCtr, dockerAssetCtr >>

(***************************************************************************)
(* Helpers on sequences.                                                   *)
(***************************************************************************)
Range(s) == {s[i] : i \in DOMAIN s}

isDeployAction(a) == a.kind = "deploy"

RECURSIVE flatMap(_, _)
\* flatMap(xs, s => s.actions.filter(isDeployAction)), where actions[s] are
\* the actions of stage s.
flatMap(xs, actions) ==
  IF xs = <<>> THEN <<>>
  ELSE SelectSeq(actions[Head(xs)], isDeployAction) \o flatMap(Tail(xs), actions)

\* Array.prototype.indexOf: the first index holding x, 0 if none.
indexOf(s, x) ==
  IF \E i \in DOMAIN s : s[i] = x
    THEN CHOOSE i \in DOMAIN s : s[i] = x /\ \A j \in 1..(i - 1) : s[j] # x
    ELSE 0

\* Array.prototype.splice(ix, 1).
splice1(s, ix) == [i \in 1..(Len(s) - 1) |-> IF i < ix THEN s[i] ELSE s[i + 1]]

(***************************************************************************)
(* Action objects held by stages.                                          *)
(***************************************************************************)
OtherAction(name) == [kind |-> "other", actionName |-> name]

PublishRef(ix) == [kind |-> "publish", ref |-> ix]

DeployCdkStackAction(id, deps, prepare, execute) ==
  [ kind |-> "deploy",
    stackName |-> id,
    stackArtifactId |-> id,
    dependencyStackArtifactIds |-> deps,
    prepareRunOrder |-> prepare,
    executeRunOrder |-> execute ]

(***************************************************************************)
(* CdkPipeline: construction.                                              *)
(***************************************************************************)
\* CdkPipelineProps, as far as the constructor reads them.  existingStages is
\* the number of stages the caller-supplied codePipeline already holds.
Props ==
  { p \in [ sourceAction : BOOLEAN, synthAction : BOOLEAN,
            codePipeline : BOOLEAN, pipelineName : BOOLEAN,
            existingStages : 0..Len(PreStageNames) ] :
      ~p.codePipeline => p.existingStages = 0 }

DefaultProps ==
  [ sourceAction |-> TRUE, synthAction |-> TRUE, codePipeline |-> FALSE,
    pipelineName |-> FALSE, existingStages |-> 0 ]

\* ConstructorError letting a sourceAction without synthAction through to the
\* stage-count checks.
ConstructorError_SourceAloneChecked(props) ==
  IF props.codePipeline /\ props.pipelineName
    THEN "pipelineName with codePipeline"
  ELSE IF ~props.sourceAction /\ (~props.codePipeline \/ props.existingStages < 1)
    THEN "no sourceAction"
  ELSE IF ~props.synthAction /\ (~props.codePipeline \/ props.existingStages < 2)
    THEN "no synthAction"
  ELSE "none"

\* ConstructorError asking two existing stages of a pipeline without
\* sourceAction.
ConstructorError_SourceNeedsTwo(props) ==
  IF props.codePipeline /\ props.pipelineName
    THEN "pipelineName with codePipeline"
  ELSE IF props.sourceAction /\ ~props.synthAction
    THEN "sourceAction without synthAction"
  ELSE IF ~props.sourceAction /\ (~props.codePipeline \/ props.existingStages < 2)
    THEN "no sourceAction"
  ELSE IF ~props.synthAction /\ (~props.codePipeline \/ props.existingStages < 2)
    THEN "no synthAction"
  ELSE "none"

\* The error the constructor throws for props, "none" if it throws nothing.
ConstructorError(props) ==
  IF props.codePipeline /\ props.pipelineName
    THEN "pipelineName with codePipeline"
  ELSE IF props.sourceAction /\ ~props.synthAction
    THEN "sourceAction without synthAction"
  ELSE IF ~props.sourceAction /\ (~props.codePipeline \/ props.existingStages < 1)
    THEN "no sourceAction"
  ELSE IF ~props.synthAction /\ (~props.codePipeline \/ props.existingStages < 2)
    THEN "no synthAction"
  ELSE "none"

\* ConstructedStages creating the AssetPublishing helper before the
\* UpdatePipeline stage is added.
ConstructedStages_AssetsEarly(props) ==
  SubSeq(PreStageNames, 1, props.existingStages)
    \o (IF props.sourceAction THEN <<"Source">> ELSE <<>>)
    \o (IF props.synthAction THEN <<"Build">> ELSE <<>>)
    \o <<"Assets">>
    \o <<"UpdatePipeline">>

\* The stage list the constructor leaves behind (AssetPublishing's
\* constructor adds the Assets stage last).
ConstructedStages(props) ==
  SubSeq(PreStageNames, 1, props.existingStages)
    \o (IF props.sourceAction THEN <<"Source">> ELSE <<>>)
    \o (IF props.synthAction THEN <<"Build">> ELSE <<>>)
    \o <<"UpdatePipeline">>
    \o <<"Assets">>

ConstructedActions(props) ==
  [ s \in StageNames |->
      IF s = "Source" /\ props.sourceAction THEN <<OtherAction("sourceAction")>>
      ELSE IF s = "Build" /\ props.synthAction THEN <<OtherAction("synthAction")>>
      ELSE IF s = "UpdatePipeline" THEN <<OtherAction("UpdatePipeline")>>
      ELSE IF s \in Range(SubSeq(PreStageNames, 1, props.existingStages))
        THEN <<OtherAction(s)>>
      ELSE <<>> ]

\* The registries of a fresh CdkPipeline and AssetPublishing.
Fresh ==
  /\ outputArtifacts = [u \in Units |-> 0]
  /\ artifactsMade = 0
  /\ heap = <<>>
  /\ publishers = [a \in AssetIds |-> 0]
  /\ assetRoles = [t \in AssetTypes |-> 0]
  /\ rolesMade = 0
  /\ fileAssetCtr = 1
  /\ dockerAssetCtr = 1
  /\ ret = <<>>
  /\ warnings = <<>>
  /\ history = <<>>

\* Before new CdkPipeline(...).
Init ==
  /\ pc = "new"
  /\ last = [op |-> "none"]
  /\ stages = <<>>
  /\ stageActions = [s \in StageNames |-> <<>>]
  /\ Fresh

\* new CdkPipeline(scope, id, props)
Construct(props) ==
  /\ pc = "new"
  /\ LET err == ConstructorError(props) IN
       /\ last' = [op |-> "constructor", props |-> props, threw |-> err]
       /\ IF err # "none"
            THEN /\ pc' = "failed"
                 /\ UNCHANGED <<stages, stageActions>>
            ELSE /\ pc' = "ready"
                 /\ stages' = ConstructedStages(props)
                 /\ stageActions' = ConstructedActions(props)
  /\ UNCHANGED <<outputArtifacts, artifactsMade, assetVars, ret, warnings, history>>

\* The state right after new CdkPipeline(...) with a source and a synth
\* action and no caller-supplied codePipeline.
InitReady ==
  /\ pc = "ready"
  /\ last = [op |-> "constructor", props |-> DefaultProps, threw |-> "none"]
  /\ stages = ConstructedStages(DefaultProps)
  /\ stageActions = ConstructedActions(DefaultProps)
  /\ Fresh

(***************************************************************************)
(* CdkPipeline: stages, deploy actions, stack outputs.                     *)
(***************************************************************************)
\* addStage(stageName); codepipeline.Pipeline rejects a name already in use.
addStage(stageName) ==
  /\ pc = "ready"
  /\ stageName \notin Range(stages)
  /\ stages' = Append(stages, stageName)
  /\ last' = [op |-> "addStage", stageName |-> stageName, threw |-> "none"]
  /\ UNCHANGED <<pc, stageActions, outputArtifacts, artifactsMade, assetVars,
                 ret, warnings, history>>

\* Return all StackDeployActions in an ordered list.
stackActions == flatMap(stages, stageActions)

\* A stage created by addStage receives a deploy action (by addApplication
\* or by hand).
addDeployAction(stageName, id, deps, prepare, execute) ==
  /\ pc = "ready"
  /\ stageName \in Range(stages) \cap Range(UserStageNames)
  /\ prepare <= execute
  /\ stageActions' =
       [stageActions EXCEPT ![stageName] =
          Append(@, DeployCdkStackAction(id, deps, prepare, execute))]
  /\ last' = [op |-> "addAction", stageName |-> stageName, threw |-> "none"]
  /\ UNCHANGED <<pc, stages, outputArtifacts, artifactsMade, assetVars, ret,
                 warnings, history>>

\* stackOutput creating an Artifact on every call.
stackOutput_AlwaysNew(id) ==
  /\ pc = "ready"
  /\ artifactsMade' = artifactsMade + 1
  /\ outputArtifacts' = [outputArtifacts EXCEPT ![id] = artifactsMade + 1]
  /\ last' = [op |-> "stackOutput", id |-> id, threw |-> "none",
              artifact |-> outputArtifacts'[id]]
  /\ UNCHANGED <<pc, stages, stageActions, assetVars, ret, warnings, history>>

\* stackOutput(cfnOutput), for an output of the stack with artifact id id.
stackOutput(id) ==
  /\ pc = "ready"
  /\ IF outputArtifacts[id] = 0
       THEN /\ artifactsMade' = artifactsMade + 1
            /\ outputArtifacts' = [outputArtifacts EXCEPT ![id] = artifactsMade + 1]
       ELSE UNCHANGED <<artifactsMade, outputArtifacts>>
  /\ last' = [op |-> "stackOutput", id |-> id, threw |-> "none",
              artifact |-> outputArtifacts'[id]]
  /\ UNCHANGED <<pc, stages, stageActions, assetVars, ret, warnings, history>>

(***************************************************************************)
(* CdkPipeline: validation.                                                *)
(***************************************************************************)
Warning(stackAction, depId) ==
  [ kind |-> "warning", text |-> "not deployed through the pipeline",
    stack |-> stackAction.stackName, dependsOn |-> depId ]

OrderError(stackAction, depAction) ==
  [ kind |-> "error", text |-> "deployed before it in the pipeline",
    stack |-> stackAction.stackName, dependsOn |-> depAction.stackName ]

OutputError(artifactId) ==
  [ kind |-> "error", text |-> "Stack is not deployed in this pipeline",
    stack |-> artifactId, dependsOn |-> artifactId ]

\* findAction returning the last match instead of the first.
findAction_LastMatch(actions, depId) ==
  IF \E i \in DOMAIN actions : actions[i].stackArtifactId = depId
    THEN CHOOSE i \in DOMAIN actions :
           /\ actions[i].stackArtifactId = depId
           /\ \A j \in (i + 1)..Len(actions) : actions[j].stackArtifactId # depId
    ELSE 0

\* Array.prototype.find(s => s.stackArtifactId === depId): the index of the
\* first match, 0 for undefined.
findAction(actions, depId) ==
  IF \E i \in DOMAIN actions : actions[i].stackArtifactId = depId
    THEN CHOOSE i \in DOMAIN actions :
           /\ actions[i].stackArtifactId = depId
           /\ \A j \in 1..(i - 1) : actions[j].stackArtifactId # depId
    ELSE 0

\* tooLate with the comparison weakened: equal run orders pass.
tooLate_AllowsEqual(depAction, stackAction) ==
  depAction.executeRunOrder > stackAction.prepareRunOrder

\* tooLate with the two actions swapped.
tooLate_Swapped(depAction, stackAction) ==
  ~(stackAction.executeRunOrder < depAction.prepareRunOrder)

\* tooLate letting an action that is its own dependency pass.
tooLate_SkipsSelf(depAction, stackAction) ==
  /\ depAction # stackAction
  /\ ~(depAction.executeRunOrder < stackAction.prepareRunOrder)

\* Whether depAction runs too late for stackAction.
tooLate(depAction, stackAction) ==
  ~(depAction.executeRunOrder < stackAction.prepareRunOrder)

\* checkDependency without the branch for a dependency that is not found.
checkDependency_SkipsMissing(actions, stackAction, depId) ==
  LET ix == findAction(actions, depId) IN
    IF ix # 0 /\ tooLate(actions[ix], stackAction)
      THEN <<OrderError(stackAction, actions[ix])>>
    ELSE <<>>

\* The body of the inner loop of validateDeployOrder for one depId: the
\* warning added or the error yielded, if any.
checkDependency(actions, stackAction, depId) ==
  LET ix == findAction(actions, depId) IN
    IF ix = 0 THEN <<Warning(stackAction, depId)>>
    ELSE IF tooLate(actions[ix], stackAction)
      THEN <<OrderError(stackAction, actions[ix])>>
    ELSE <<>>

RECURSIVE checkDependencies(_, _, _)
checkDependencies(actions, stackAction, deps) ==
  IF deps = <<>> THEN <<>>
  ELSE checkDependency(actions, stackAction, Head(deps))
         \o checkDependencies(actions, stackAction, Tail(deps))

RECURSIVE checkActions_StopsAtFirstError(_, _)
\* checkActions leaving the outer loop after the first action with an error.
checkActions_StopsAtFirstError(actions, rest) ==
  IF rest = <<>> THEN <<>>
  ELSE LET found == checkDependencies(actions, Head(rest),
                                      Head(rest).dependencyStackArtifactIds)
       IN  IF \E k \in DOMAIN found : found[k].kind = "error"
             THEN found
             ELSE found \o checkActions_StopsAtFirstError(actions, Tail(rest))

RECURSIVE checkActions(_, _)
\* The outer loop of validateDeployOrder over the deploy actions still to
\* visit.
checkActions(actions, rest) ==
  IF rest = <<>> THEN <<>>
  ELSE checkDependencies(actions, Head(rest), Head(rest).dependencyStackArtifactIds)
         \o checkActions(actions, Tail(rest))

isError(f) == f.kind = "error"
isWarning(f) == f.kind = "warning"

\* Everything one run of validateDeployOrder emits, in order.
deployOrderFindings == checkActions(stackActions, stackActions)

\* What validateDeployOrder yields.
validateDeployOrder == SelectSeq(deployOrderFindings, isError)

\* What validateDeployOrder adds through Annotations.of(this).addWarning.
validateDeployOrderWarnings == SelectSeq(deployOrderFindings, isWarning)

\* Object.keys(this._outputArtifacts): the keys in insertion order.
outputKeys ==
  [ i \in 1..Cardinality({u \in Units : outputArtifacts[u] # 0}) |->
      CHOOSE u \in Units :
        /\ outputArtifacts[u] # 0
        /\ Cardinality({v \in Units : outputArtifacts[v] # 0
                                       /\ outputArtifacts[v] < outputArtifacts[u]}) = i - 1 ]

\* validateRequestedOutputs without the test for a deployed stack.
validateRequestedOutputs_EveryKey ==
  [ i \in 1..Len(outputKeys) |-> OutputError(outputKeys[i]) ]

\* What validateRequestedOutputs yields.
validateRequestedOutputs ==
  LET artifactIds == {stackActions[i].stackArtifactId : i \in DOMAIN stackActions}
      missing(id) == id \notin artifactIds
      keys == outputKeys
  IN  [ i \in 1..Len(SelectSeq(keys, missing)) |->
          OutputError(SelectSeq(keys, missing)[i]) ]

\* validate(), run by the framework when the construct tree is synthesized.
validate ==
  /\ pc = "ready"
  /\ pc' = "validated"
  /\ ret' = validateDeployOrder \o validateRequestedOutputs
  /\ warnings' = warnings \o validateDeployOrderWarnings
  /\ last' = [op |-> "validate", threw |-> "none"]
  /\ UNCHANGED <<stages, stageActions, outputArtifacts, artifactsMade, assetVars,
                 history>>

(***************************************************************************)
(* AssetPublishing.                                                        *)
(***************************************************************************)
\* The length of the longest common prefix of two segment lists.
commonPrefix(a, b) ==
  CHOOSE k \in 0..Len(a) :
    /\ k <= Len(b)
    /\ \A i \in 1..k : a[i] = b[i]
    /\ (k < Len(a) /\ k < Len(b)) => a[k + 1] # b[k + 1]

\* path.relative(from, to) for two resolved absolute paths: one ".." for
\* every segment of from below the common prefix, then the rest of to.
relative(from, to) ==
  LET k == commonPrefix(from, to) IN
    [i \in 1..(Len(from) - k) |-> ".."] \o SubSeq(to, k + 1, Len(to))

\* relativePath.startsWith(`..${path.sep}`): the joined string starts with
\* ".." followed by a separator, so a second segment must follow.
startsWithDotDotSep(relativePath) ==
  /\ Len(relativePath) >= 2
  /\ relativePath[1] = ".."

AssetPublishingCommands ==
  [ assetManifestPath : ManifestPaths, assetType : AssetTypes,
    assetId : AssetIds, assetSelector : Selectors ]

\* if (!this.assetRoles[command.assetType]) this.generateAssetRole(...)
needsRole(assetType) == assetRoles[assetType] = 0

\* generateAssetRole that never stores the role it creates.
generateAssetRole_NotStored(assetType) ==
  /\ rolesMade' = rolesMade + 1
  /\ UNCHANGED assetRoles

\* generateAssetRole(assetType): returns the role of the type if there is
\* one, and otherwise creates a role and stores it under the type.
generateAssetRole(assetType) ==
  IF assetRoles[assetType] # 0 THEN UNCHANGED <<assetRoles, rolesMade>>
  ELSE /\ rolesMade' = rolesMade + 1
       /\ assetRoles' = [assetRoles EXCEPT ![assetType] = rolesMade + 1]

\* newActionId numbering both kinds with the file counter.
newActionId_OneCounter(assetType) ==
  IF assetType = FILE THEN <<"FileAsset", fileAssetCtr>>
  ELSE <<"DockerAsset", fileAssetCtr>>

\* The construct id and actionName of a new PublishAssetsAction.
newActionId(assetType) ==
  IF assetType = FILE THEN <<"FileAsset", fileAssetCtr>>
  ELSE <<"DockerAsset", dockerAssetCtr>>

\* The post-increments of the id expression.
bumpCounter(assetType) ==
  IF assetType = FILE
    THEN fileAssetCtr' = fileAssetCtr + 1 /\ UNCHANGED dockerAssetCtr
    ELSE dockerAssetCtr' = dockerAssetCtr + 1 /\ UNCHANGED fileAssetCtr

\* lookupPublisher that never finds the action of an asset.
lookupPublisher_NeverFound(assetId) == 0

\* let action = this.publishers[command.assetId]: heap index, 0 if undefined.
lookupPublisher(assetId) == publishers[assetId]

\* action.addPublishCommand(relativePath, assetSelector)
addPublishCommand(action, relativePath, assetSelector) ==
  [action EXCEPT !.commands = Append(@, <<relativePath, assetSelector>>)]

\* newPublishAssetsAction naming the action after the manifest path.
newPublishAssetsAction_NamedByPath(command) ==
  [ actionName |-> << IF command.assetType = FILE THEN "FileAsset" ELSE "DockerAsset",
                      Len(relative(myCxAsmRoot, command.assetManifestPath)) >>,
    assetType |-> command.assetType,
    role |-> assetRoles'[command.assetType],
    commands |-> <<>> ]

\* new PublishAssetsAction(this, id, { actionName: id, assetType, role, ... }),
\* created after the role of the type is in place.
newPublishAssetsAction(command) ==
  [ actionName |-> newActionId(command.assetType),
    assetType |-> command.assetType,
    role |-> assetRoles'[command.assetType],
    commands |-> <<>> ]

\* addAction putting the new action in front of the stage's actions.
addAction_InFront(actions, action) == <<action>> \o actions

\* this.stage.addAction(action): the stage's actions with action added.
addAction(actions, action) == Append(actions, action)

\* addPublishAssetAction(command)
addPublishAssetAction(command) ==
  LET relativePath == relative(myCxAsmRoot, command.assetManifestPath) IN
  /\ pc = "ready"
  /\ Len(history) < MaxRequests
  /\ IF startsWithDotDotSep(relativePath)
       THEN /\ last' = [op |-> "publishAsset",
                        path |-> command.assetManifestPath,
                        threw |-> "outside the Cloud Assembly directory"]
            /\ UNCHANGED <<assetVars, stageActions, history>>
       ELSE /\ last' = [op |-> "publishAsset",
                        path |-> command.assetManifestPath, threw |-> "none"]
            /\ IF needsRole(command.assetType)
                 THEN generateAssetRole(command.assetType)
                 ELSE UNCHANGED <<assetRoles, rolesMade>>
            /\ IF lookupPublisher(command.assetId) = 0
                 THEN LET action == newPublishAssetsAction(command)
                      IN  /\ bumpCounter(command.assetType)
                          /\ publishers' =
                               [publishers EXCEPT ![command.assetId] = Len(heap) + 1]
                          /\ stageActions' =
                               [stageActions EXCEPT !["Assets"] =
                                  addAction(@, PublishRef(Len(heap) + 1))]
                          /\ heap' = Append(heap,
                               addPublishCommand(action, relativePath,
                                                 command.assetSelector))
                 ELSE /\ heap' =
                           [heap EXCEPT ![lookupPublisher(command.assetId)] =
                              addPublishCommand(@, relativePath, command.assetSelector)]
                      /\ UNCHANGED <<publishers, stageActions, fileAssetCtr,
                                     dockerAssetCtr>>
            /\ history' = Append(history, command)
  /\ UNCHANGED <<pc, stages, outputArtifacts, artifactsMade, ret, warnings>>

\* noPublishers with the test inverted.
noPublishers_Inverted == \E a \in AssetIds : publishers[a] # 0

\* Object.keys(this.publishers).length === 0
noPublishers == \A a \in AssetIds : publishers[a] = 0

\* removeAssetsStageIfEmpty(), the visit of the aspect the constructor adds.
removeAssetsStageIfEmpty ==
  /\ pc = "ready"
  /\ IF noPublishers /\ indexOf(stages, "Assets") > 0
       THEN stages' = splice1(stages, indexOf(stages, "Assets"))
       ELSE UNCHANGED stages
  /\ last' = [op |-> "removeAssetsStageIfEmpty", threw |-> "none"]
  /\ UNCHANGED <<pc, stageActions, outputArtifacts, artifactsMade, assetVars, ret,
                 warnings, history>>

(***************************************************************************)
(* Specifications.                                                         *)
(***************************************************************************)
\* The number of stages added through addStage so far.
userStages == Cardinality(Range(stages) \cap Range(UserStageNames))

AddStage ==
  /\ userStages < Len(UserStageNames)
  /\ addStage(UserStageNames[userStages + 1])

AddDeployAction ==
  /\ Len(stackActions) < MaxDeploy
  /\ \E n \in Range(stages) \cap Range(UserStageNames), id \in Units,
        deps \in DepLists, prepare \in RunOrders :
          \E execute \in {e \in RunOrders : prepare <= e} :
            addDeployAction(n, id, deps, prepare, execute)

StackOutput == \E id \in Units : stackOutput(id)

Validate == validate

AddPublishAssetAction == \E c \in AssetPublishingCommands : addPublishAssetAction(c)

RemoveAssetsStageIfEmpty == removeAssetsStageIfEmpty

New == \E p \in Props : Construct(p)

\* The whole construct: every operation, from before construction.
Next ==
  \/ New
  \/ AddStage
  \/ AddDeployAction
  \/ StackOutput
  \/ AddPublishAssetAction
  \/ RemoveAssetsStageIfEmpty
  \/ Validate

Spec == Init /\ [][Next]_vars

\* Deployment planning and validation of a constructed pipeline.
NextDeploy ==
  \/ AddStage
  \/ AddDeployAction
  \/ Validate

SpecDeploy == InitReady /\ [][NextDeploy]_vars

\* Asset publishing of a constructed pipeline.
NextAssets ==
  \/ AddPublishAssetAction
  \/ RemoveAssetsStageIfEmpty

SpecAssets == InitReady /\ [][NextAssets]_vars

\* Stack outputs of a constructed pipeline, among the other operations.
NextOutputs ==
  \/ StackOutput
  \/ AddStage
  \/ (Len(history) < MaxRequestsWithOutputs /\ AddPublishAssetAction)
  \/ RemoveAssetsStageIfEmpty

SpecOutputs == InitReady /\ [][NextOutputs]_vars

\* A planning session: stages and assets are declared, and only then, at
\* synthesis, the aspect runs removeAssetsStageIfEmpty (once per construct
\* it visits).
synthesizing == last.op = "removeAssetsStageIfEmpty"

NextSession ==
  \/ (~synthesizing /\ AddStage)
  \/ (~synthesizing /\ Len(history) < MaxSessionRequests /\ AddPublishAssetAction)
  \/ RemoveAssetsStageIfEmpty

SpecSession == InitReady /\ [][NextSession]_vars

\* The requests of planning sessions that differ in the content of their
\* assets only: any manifest path of ContentPaths, one destination.
ContentCommands ==
  { c \in [ assetManifestPath : ContentPaths, assetType : AssetTypes,
            assetId : AssetIds, assetSelector : Selectors ] :
      c.assetSelector = "d1" }

AddPublishAssetActionOfContent ==
  \E c \in ContentCommands : addPublishAssetAction(c)

NextStability == AddPublishAssetActionOfContent

SpecStability == InitReady /\ [][NextStability]_vars

\* Stack outputs are requested while the deployment is planned, in any
\* order, and the plan is validated.
NextRequested ==
  \/ AddStage
  \/ (Len(stackActions) < MaxDeployWithOutputs /\ AddDeployAction)
  \/ StackOutput
  \/ Validate

SpecRequested == InitReady /\ [][NextRequested]_vars

\* Construction with any props, then the stage list is built: stages are
\* added and assets are published, before synthesis.
NextPlan ==
  \/ New
  \/ AddStage
  \/ (Len(history) < MaxPlanRequests /\ AddPublishAssetAction)

SpecPlan == Init /\ [][NextPlan]_vars

(***************************************************************************)
(* Vocabulary of the properties about validation.  After validate() the    *)
(* pipeline no longer changes, so stackActions is the list validate() saw. *)
(* The operators take that list as their argument sa.                      *)
(***************************************************************************)
validated == pc = "validated"

\* The dependency edges of the plan: <<i, j>> is the j-th dependency of the
\* i-th deploy action in flattened pipeline order.
Edges(sa) ==
  UNION { {<<i, j>> : j \in DOMAIN sa[i].dependencyStackArtifactIds} : i \in DOMAIN sa }

DepId(sa, e) == sa[e[1]].dependencyStackArtifactIds[e[2]]

\* The deploy actions that deploy unit id.
Deploying(sa, id) == {k \in DOMAIN sa : sa[k].stackArtifactId = id}

\* The first deploy action, in flattened pipeline order, that deploys id.
FirstDeploying(sa, id) ==
  CHOOSE k \in Deploying(sa, id) : \A m \in Deploying(sa, id) : k <= m

MissingEdges(sa) == {e \in Edges(sa) : Deploying(sa, DepId(sa, e)) = {}}

\* Edges whose dependency, as first deployed, does not execute strictly
\* before the dependent is prepared.
ViolatingEdges(sa) ==
  { e \in Edges(sa) :
      /\ Deploying(sa, DepId(sa, e)) # {}
      /\ ~(sa[FirstDeploying(sa, DepId(sa, e))].executeRunOrder
             < sa[e[1]].prepareRunOrder) }

\* e comes before f in the order validation walks the edges.
EdgeBefore(e, f) == e[1] < f[1] \/ (e[1] = f[1] /\ e[2] < f[2])

\* The position of edge e among the edges of S, in walking order.
EdgeRank(S, e) == 1 + Cardinality({f \in S : EdgeBefore(f, e)})

isOrderError(f) == f.text = "deployed before it in the pipeline"

\* The ordering violations among the errors validate() returned.
orderErrors == SelectSeq(ret, isOrderError)

\* The number of ordering violations in errs that name stack x and
\* dependency y.
Reported(errs, x, y) ==
  Cardinality({k \in DOMAIN errs : errs[k].stack = x /\ errs[k].dependsOn = y})

(***************************************************************************)
(* C1 as stated: for every deploy action a, every dependency id of a and   *)
(* every deploy action d that deploys it, validation reports exactly one   *)
(* violation naming a and d if d.executeRunOrder < a.prepareRunOrder fails *)
(* (equal run orders included), and none otherwise.                        *)
(***************************************************************************)
C1_AnyDeployingAction ==
  validated =>
    LET sa == stackActions
        errs == orderErrors
    IN  \A e \in Edges(sa) : \A k \in Deploying(sa, DepId(sa, e)) :
          Reported(errs, sa[e[1]].stackName, sa[k].stackName)
            = IF ~(sa[k].executeRunOrder < sa[e[1]].prepareRunOrder)
                THEN 1 ELSE 0

(***************************************************************************)
(* C1, amended: with d the FIRST deploy action in flattened pipeline order *)
(* that deploys the dependency id, the returned ordering violations are    *)
(* exactly one per edge for which d.executeRunOrder < a.prepareRunOrder    *)
(* fails (equal run orders included), each naming a and d, and none for    *)
(* the edges for which it holds.                                           *)
(***************************************************************************)
C1_StrictOrderPerEdge ==
  validated =>
    LET sa == stackActions
        errs == orderErrors
        V == ViolatingEdges(sa)
    IN  /\ Len(errs) = Cardinality(V)
        /\ \A e \in V :
             LET err == errs[EdgeRank(V, e)] IN
               /\ err.stack = sa[e[1]].stackName
               /\ err.dependsOn = sa[FirstDeploying(sa, DepId(sa, e))].stackName

\* A validated plan with one edge whose dependency executes in the very run
\* order the dependent is prepared in, reported once.
C1_Witness ==
  /\ validated
  /\ Len(orderErrors) = 1
  /\ LET sa == stackActions IN
       \E e \in ViolatingEdges(sa) :
         /\ Cardinality(Deploying(sa, DepId(sa, e))) = 1
         /\ sa[FirstDeploying(sa, DepId(sa, e))].executeRunOrder
              = sa[e[1]].prepareRunOrder
         /\ DepId(sa, e) # sa[e[1]].stackArtifactId

(***************************************************************************)
(* C2: one validation pass adds exactly one warning for every dependency   *)
(* edge whose id no deploy action of the pipeline deploys, naming the      *)
(* dependent and the id, and returns no error for such an edge: the errors *)
(* returned are those of the other edges only, so a plan whose only        *)
(* findings are missing dependencies validates with no error.              *)
(***************************************************************************)
C2_MissingDependencyWarns ==
  validated =>
    LET sa == stackActions
        M == MissingEdges(sa)
    IN  /\ Len(warnings) = Cardinality(M)
        /\ \A e \in M :
             LET w == warnings[EdgeRank(M, e)] IN
               /\ w.kind = "warning"
               /\ w.stack = sa[e[1]].stackName
               /\ w.dependsOn = DepId(sa, e)
        /\ \A k \in DOMAIN ret : Deploying(sa, ret[k].dependsOn) # {}
        /\ ViolatingEdges(sa) = {} => ret = <<>>

\* A validated plan with a single, missing, dependency edge: one warning
\* and no error.
C2_Witness ==
  /\ validated
  /\ Len(warnings) = 1
  /\ ret = <<>>
  /\ LET sa == stackActions IN
       /\ Cardinality(MissingEdges(sa)) = 1
       /\ Cardinality(Edges(sa)) = 1

(***************************************************************************)
(* C3: when every dependency of every deploy action is deployed in the     *)
(* pipeline and every action deploying it executes strictly before the     *)
(* dependent is prepared (a topological expansion; siblings may share run  *)
(* orders), validation returns no violation.                               *)
(***************************************************************************)
TopologicalExpansion(sa) ==
  \A e \in Edges(sa) :
    /\ Deploying(sa, DepId(sa, e)) # {}
    /\ \A k \in Deploying(sa, DepId(sa, e)) :
         sa[k].executeRunOrder < sa[e[1]].prepareRunOrder

C3_TopologicalOrderValidates ==
  (validated /\ TopologicalExpansion(stackActions)) => ret = <<>>

\* The diamond: A, then B and C, both depending on A, in one later run
\* order, validated without violation.
C3_Witness ==
  /\ validated
  /\ ret = <<>>
  /\ LET sa == stackActions IN
       /\ Len(sa) = 3
       /\ sa[1].stackArtifactId = "A"
       /\ sa[2].stackArtifactId = "B"
       /\ sa[3].stackArtifactId = "C"
       /\ sa[2].dependencyStackArtifactIds = <<"A">>
       /\ sa[3].dependencyStackArtifactIds = <<"A">>
       /\ sa[1].prepareRunOrder = 1
       /\ sa[1].executeRunOrder = 1
       /\ sa[2].prepareRunOrder = 2
       /\ sa[3].prepareRunOrder = 2
       /\ sa[2].executeRunOrder = sa[3].executeRunOrder
       /\ TopologicalExpansion(sa)

(***************************************************************************)
(* C10: a validation pass does not stop at the first ordering violation:   *)
(* it returns as many ordering errors as the plan has violating edges, and *)
(* the dependents they name follow the pipeline order of the dependent     *)
(* actions.                                                                *)
(***************************************************************************)
C10_AllViolationsCollected ==
  validated =>
    LET sa == stackActions
        errs == orderErrors
        V == ViolatingEdges(sa)
    IN  /\ Len(errs) = Cardinality(V)
        /\ \A e \in V, f \in V :
             e[1] < f[1] =>
               /\ EdgeRank(V, e) < EdgeRank(V, f)
               /\ errs[EdgeRank(V, e)].stack = sa[e[1]].stackName
               /\ errs[EdgeRank(V, f)].stack = sa[f[1]].stackName

\* A validated plan in which two different deploy actions each have a
\* violating edge, and both are returned.
C10_Witness ==
  /\ validated
  /\ Len(orderErrors) >= 2
  /\ LET sa == stackActions
         V == ViolatingEdges(sa)
     IN  \E e \in V, f \in V :
           /\ e[1] < f[1]
           /\ sa[e[1]].stackName # sa[f[1]].stackName

(***************************************************************************)
(* Vocabulary of the properties about asset publishing.                    *)
(***************************************************************************)
\* The asset ids of the addPublishAssetAction calls that returned.
Requested == {history[i].assetId : i \in DOMAIN history}

\* The selectors of the calls that returned for asset id a, in call order.
SelectorsRequested(a) ==
  LET calls == SelectSeq(history, LAMBDA c : c.assetId = a)
  IN  [i \in DOMAIN calls |-> calls[i].assetSelector]

\* The selectors a PublishAssetsAction received through addPublishCommand,
\* in the order it received them.
SelectorsReceived(action) ==
  [i \in DOMAIN action.commands |-> action.commands[i][2]]

\* The calls that returned and were the first for their asset id.
FirstRequests ==
  {i \in DOMAIN history : \A j \in 1..(i - 1) : history[j].assetId # history[i].assetId}

NamePrefix(assetType) == IF assetType = FILE THEN "FileAsset" ELSE "DockerAsset"

\* The stages other than Assets, in the order construction and addStage
\* created them.
OtherStages ==
  <<"Source", "Build", "UpdatePipeline">> \o SubSeq(UserStageNames, 1, userStages)

\* path lies in the directory root or below it.
ContainedIn(path, root) ==
  /\ Len(path) >= Len(root)
  /\ SubSeq(path, 1, Len(root)) = root

(***************************************************************************)
(* C4: after any sequence of addPublishAssetAction calls that returned,    *)
(* there is exactly one PublishAssetsAction per distinct asset id          *)
(* requested, each a distinct object registered for its id, and it has     *)
(* received exactly the selectors of the calls for that id, one per call,  *)
(* in call order.                                                          *)
(***************************************************************************)
C4_OneActionPerAssetId ==
  /\ Len(heap) = Cardinality(Requested)
  /\ \A a \in AssetIds : (publishers[a] # 0) <=> (a \in Requested)
  /\ \A a \in Requested, b \in Requested :
       publishers[a] = publishers[b] => a = b
  /\ \A a \in Requested :
       /\ publishers[a] \in DOMAIN heap
       /\ SelectorsReceived(heap[publishers[a]]) = SelectorsRequested(a)

\* Two calls for one asset id with two destinations, a call for another
\* asset id between them: one action with the two selectors in call order.
C4_Witness ==
  /\ Len(history) = 3
  /\ history[1].assetId = history[3].assetId
  /\ history[2].assetId # history[1].assetId
  /\ history[1].assetSelector = "d1"
  /\ history[3].assetSelector = "d2"
  /\ SelectorsReceived(heap[publishers[history[1].assetId]]) = <<"d1", "d2">>
  /\ Len(heap) = 2

(***************************************************************************)
(* C5: a new PublishAssetsAction is named by kind and sequence number: the *)
(* k-th asset id first requested as FILE is FileAsset k, the m-th first    *)
(* requested as DOCKER_IMAGE is DockerAsset m; both counters start at 1,   *)
(* advance only when an action of their kind is created, and no two        *)
(* actions share a name.                                                   *)
(***************************************************************************)
C5_SequenceNumberNames ==
  /\ \A i \in FirstRequests :
       /\ publishers[history[i].assetId] \in DOMAIN heap
       /\ heap[publishers[history[i].assetId]].actionName =
            << NamePrefix(history[i].assetType),
               1 + Cardinality({j \in FirstRequests :
                                  /\ j < i
                                  /\ history[j].assetType = history[i].assetType}) >>
  /\ fileAssetCtr =
       1 + Cardinality({i \in FirstRequests : history[i].assetType = FILE})
  /\ dockerAssetCtr =
       1 + Cardinality({i \in FirstRequests : history[i].assetType = DOCKER_IMAGE})
  /\ \A i \in DOMAIN heap, j \in DOMAIN heap :
       heap[i].actionName = heap[j].actionName => i = j

\* A file asset, a Docker asset and a second file asset, created in this
\* order: FileAsset1, DockerAsset1, FileAsset2.
C5_Witness ==
  /\ Len(heap) = 3
  /\ heap[1].actionName = <<"FileAsset", 1>>
  /\ heap[2].actionName = <<"DockerAsset", 1>>
  /\ heap[3].actionName = <<"FileAsset", 2>>

(***************************************************************************)
(* C6: in a planning session, after removeAssetsStageIfEmpty has run (once *)
(* or several times): if no addPublishAssetAction call was made, the stage *)
(* list holds no Assets stage and all other stages in their original       *)
(* order; if a call was made, the Assets stage is still in the stage list, *)
(* in its place, and holds at least one action.                            *)
(***************************************************************************)
C6_EmptyAssetsStageElided ==
  synthesizing =>
    IF history = <<>>
      THEN stages = OtherStages
      ELSE /\ stages = SubSeq(OtherStages, 1, 3) \o <<"Assets">>
                         \o SubSeq(OtherStages, 4, Len(OtherStages))
           /\ Len(stageActions["Assets"]) >= 1

\* Both cases after the aspect ran: a plan without assets that lost its
\* Assets stage and kept a stage added by the caller ...
C6_Witness ==
  /\ synthesizing
  /\ history = <<>>
  /\ stages = <<"Source", "Build", "UpdatePipeline", "S1">>

\* ... and a plan with an asset that kept it.
C6_WitnessKept ==
  /\ synthesizing
  /\ history # <<>>
  /\ "Assets" \in Range(stages)

(***************************************************************************)
(* C7: the first stackOutput for a stack allocates one Artifact, every     *)
(* later stackOutput for that stack resolves to the same Artifact whatever *)
(* happened in between, distinct stacks get distinct Artifacts, and an     *)
(* entry of the registry is never removed or replaced.                     *)
(***************************************************************************)
C7_OneArtifactPerStack ==
  [][ /\ \A u \in Units :
           outputArtifacts[u] # 0 => outputArtifacts'[u] = outputArtifacts[u]
      /\ \A u \in Units, v \in Units :
           (u # v /\ outputArtifacts'[u] # 0) => outputArtifacts'[u] # outputArtifacts'[v]
      /\ (last'.op = "stackOutput" /\ last' # last) =>
           /\ last'.artifact # 0
           /\ last'.artifact = outputArtifacts'[last'.id]
           /\ IF outputArtifacts[last'.id] # 0
                THEN /\ last'.artifact = outputArtifacts[last'.id]
                     /\ artifactsMade' = artifactsMade
                ELSE /\ artifactsMade' = artifactsMade + 1
                     /\ \A v \in Units : outputArtifacts[v] # last'.artifact
      /\ (last'.op # "stackOutput") => artifactsMade' = artifactsMade
    ]_vars

\* Stack A asked first, then stack B, an asset published and a stage added,
\* and A asked again: the Artifact allocated first comes back.
C7_Witness ==
  /\ last.op = "stackOutput"
  /\ last.id = "A"
  /\ last.artifact = 1
  /\ outputArtifacts["B"] = 2
  /\ artifactsMade = 2
  /\ history # <<>>
  /\ userStages > 0

(***************************************************************************)
(* C8 as stated: an addPublishAssetAction call whose assetManifestPath is  *)
(* not contained in the cloud assembly directory throws.                   *)
(***************************************************************************)
C8_OutsideAlwaysThrows ==
  (last.op = "publishAsset" /\ ~ContainedIn(last.path, myCxAsmRoot))
    => last.threw # "none"

(***************************************************************************)
(* C9: the number of roles created equals the number of distinct asset     *)
(* types among the calls that returned (none without a call, at most 2),   *)
(* the roles of the two types differ, and every PublishAssetsAction        *)
(* carries the one role of its type.                                       *)
(***************************************************************************)
C9_OneRolePerAssetType ==
  /\ rolesMade = Cardinality({history[i].assetType : i \in DOMAIN history})
  /\ \A t \in AssetTypes :
       (assetRoles[t] # 0) <=> (\E i \in DOMAIN history : history[i].assetType = t)
  /\ \A t \in AssetTypes : assetRoles[t] \in 0..rolesMade
  /\ (rolesMade = 2) => assetRoles[FILE] # assetRoles[DOCKER_IMAGE]
  /\ \A i \in DOMAIN heap :
       /\ heap[i].role # 0
       /\ heap[i].role = assetRoles[heap[i].assetType]

\* Three assets, two of them files: two roles, and the two file actions
\* share theirs.
C9_Witness ==
  /\ Len(heap) = 3
  /\ rolesMade = 2
  /\ \E i \in DOMAIN heap, j \in DOMAIN heap :
       /\ i # j
       /\ heap[i].assetType = heap[j].assetType
       /\ heap[i].role = heap[j].role

(***************************************************************************)
(* Vocabulary of the properties about construction.                        *)
(***************************************************************************)
constructed == last.op = "constructor"

\* The constructor threw a configuration error and left no pipeline.
rejected == last.threw # "none" /\ pc = "failed"

\* The constructor returned.
accepted == last.threw = "none" /\ pc = "ready"

C12_SynthWithoutSourceRejected ==
  (constructed /\ last.props.synthAction /\ ~last.props.sourceAction)
    => rejected

(***************************************************************************)
(* C12, amended: construction with a synthAction and no sourceAction is    *)
(* rejected unless a codePipeline that already holds at least 1 stage is   *)
(* given (without a pipelineName); then it is accepted, and the Build      *)
(* stage follows the stages the codePipeline brought.                      *)
(***************************************************************************)
C12_SynthNeedsExistingSource ==
  (constructed /\ last.props.synthAction /\ ~last.props.sourceAction)
    => IF last.props.codePipeline /\ last.props.existingStages >= 1
            /\ ~last.props.pipelineName
         THEN /\ accepted
              /\ stages = SubSeq(PreStageNames, 1, last.props.existingStages)
                            \o <<"Build", "UpdatePipeline", "Assets">>
         ELSE /\ rejected
              /\ stages = <<>>

\* A synthAction without sourceAction and a codePipeline of 1 stage,
\* accepted.
C12_Witness ==
  /\ constructed
  /\ last.props.synthAction
  /\ ~last.props.sourceAction
  /\ last.props.codePipeline
  /\ last.props.existingStages = 1
  /\ pc = "ready"
  /\ stages = <<"Pre1", "Build", "UpdatePipeline", "Assets">>


(***************************************************************************)
(* C13: at every point the actions of the Assets stage are the             *)
(* PublishAssetsActions of the distinct asset ids requested, in the order  *)
(* of their first request: an action is in the stage as soon as the call   *)
(* that created it has returned, and a request for a known asset id        *)
(* neither adds, removes nor reorders actions.                             *)
(***************************************************************************)
\* The i-th call that returned and was the first for its asset id.
FirstRequestAt(i) ==
  CHOOSE k \in FirstRequests : Cardinality({j \in FirstRequests : j < k}) = i - 1

C13_StageFollowsFirstRequests ==
  LET actions == stageActions["Assets"] IN
    /\ Len(actions) = Cardinality(FirstRequests)
    /\ \A i \in DOMAIN actions :
         /\ actions[i].kind = "publish"
         /\ actions[i].ref = publishers[history[FirstRequestAt(i)].assetId]

\* asset-2 requested first, then asset-1, then asset-2 again: the stage
\* holds the action of asset-2, then that of asset-1.
C13_Witness ==
  /\ Len(history) = 3
  /\ history[1].assetId = "asset-2"
  /\ history[2].assetId = "asset-1"
  /\ history[3].assetId = "asset-2"
  /\ last.op = "publishAsset"
  /\ stageActions["Assets"] =
       <<PublishRef(publishers["asset-2"]), PublishRef(publishers["asset-1"])>>
  /\ publishers["asset-2"] # publishers["asset-1"]

(***************************************************************************)
(* C14: the names of the PublishAssetsActions, the asset ids they are      *)
(* attached to and their positions in the Assets stage are a function of   *)
(* the request sequence with the assetManifestPath of every request        *)
(* erased: sessions fed request sequences that differ in manifest paths    *)
(* only end with the same names on the same asset ids in the same          *)
(* positions.  Only the publish commands carry the paths.                  *)
(***************************************************************************)
\* A request without its assetManifestPath.
Erase(c) ==
  [assetType |-> c.assetType, assetId |-> c.assetId, assetSelector |-> c.assetSelector]

ErasedHistory == [i \in DOMAIN history |-> Erase(history[i])]

\* The requests of h that are the first for their asset id.
FirstsOf(h) == {i \in DOMAIN h : \A j \in 1..(i - 1) : h[j].assetId # h[i].assetId}

\* The k-th of them.
FirstOf(h, k) ==
  CHOOSE i \in FirstsOf(h) : Cardinality({j \in FirstsOf(h) : j < i}) = k - 1

\* The name the k-th action gets, from h alone.
NameFrom(h, k) ==
  LET i == FirstOf(h, k) IN
    << IF h[i].assetType = FILE THEN "FileAsset" ELSE "DockerAsset",
       1 + Cardinality({j \in FirstsOf(h) : j < i /\ h[j].assetType = h[i].assetType}) >>

C14_NamesIgnoreManifestPath ==
  LET h == ErasedHistory IN
    /\ Len(heap) = Cardinality(FirstsOf(h))
    /\ Len(stageActions["Assets"]) = Len(heap)
    /\ \A k \in DOMAIN heap :
         /\ heap[k].actionName = NameFrom(h, k)
         /\ publishers[h[FirstOf(h, k)].assetId] = k
         /\ stageActions["Assets"][k] = PublishRef(k)
         /\ Len(heap[k].commands) =
              Cardinality({i \in DOMAIN h : h[i].assetId = h[FirstOf(h, k)].assetId})

\* One asset requested from two manifest paths (its content changed) after
\* another asset: one action, still named FileAsset2 and second in the
\* stage, holding two commands with different paths.
C14_Witness ==
  /\ Len(history) = 3
  /\ history[1].assetId # history[2].assetId
  /\ history[2].assetId = history[3].assetId
  /\ history[2].assetManifestPath # history[3].assetManifestPath
  /\ Erase(history[2]) = Erase(history[3])
  /\ Len(heap) = 2
  /\ heap[2].actionName = <<"FileAsset", 2>>
  /\ stageActions["Assets"] = <<PublishRef(1), PublishRef(2)>>
  /\ Len(heap[2].commands) = 2
  /\ heap[2].commands[1][1] # heap[2].commands[2][1]

(***************************************************************************)
(* Vocabulary of the properties about self-dependencies.                   *)
(***************************************************************************)
\* The edges of the deploy actions of unit u onto u itself.
SelfEdges(sa, u) ==
  {e \in Edges(sa) : sa[e[1]].stackArtifactId = u /\ DepId(sa, e) = u}

\* No warning names unit u as depending on itself.
NoSelfWarning(u) ==
  \A k \in DOMAIN warnings : ~(warnings[k].stack = u /\ warnings[k].dependsOn = u)

(***************************************************************************)
(* C15 as stated: every deploy action whose dependency ids contain its own *)
(* stack artifact id is reported by validation as an ordering violation,   *)
(* and never as a warning: there are as many violations naming a unit as   *)
(* depending on itself as there are self-dependencies of that unit.        *)
(***************************************************************************)
C15_SelfDependencyAlwaysReported ==
  validated =>
    LET sa == stackActions
        errs == orderErrors
    IN  \A u \in Units :
          /\ Reported(errs, u, u) = Cardinality(SelfEdges(sa, u))
          /\ NoSelfWarning(u)

(***************************************************************************)
(* C15, amended: a deploy action whose dependency ids contain its own      *)
(* stack artifact id, and which is the first deploy action of that unit in *)
(* flattened pipeline order (so every unit deployed once), is reported by  *)
(* validation as an ordering violation, never as a warning, for every      *)
(* prepareRunOrder <= executeRunOrder; a unit deployed once is reported    *)
(* exactly once.                                                           *)
(***************************************************************************)
C15_FirstSelfDependencyReported ==
  validated =>
    LET sa == stackActions
        errs == orderErrors
    IN  \A u \in Units :
          /\ NoSelfWarning(u)
          /\ \A e \in SelfEdges(sa, u) :
               /\ e[1] = FirstDeploying(sa, u) => Reported(errs, u, u) >= 1
               /\ Cardinality(Deploying(sa, u)) = 1 => Reported(errs, u, u) = 1

\* Unit A deployed once, prepared in run order 1 and executed in run order
\* 2, depending on itself: one violation.
C15_Witness ==
  /\ validated
  /\ LET sa == stackActions IN
       /\ Cardinality(Deploying(sa, "A")) = 1
       /\ \E e \in SelfEdges(sa, "A") :
            /\ sa[e[1]].prepareRunOrder = 1
            /\ sa[e[1]].executeRunOrder = 2
       /\ Reported(orderErrors, "A", "A") = 1

(***************************************************************************)
(* Vocabulary of the property about the stage order.  What the constructor *)
(* was given is read off the actions of the stages it filled.              *)
(***************************************************************************)
\* The stages the caller-supplied codePipeline brought.
ExistingStages ==
  Cardinality({i \in DOMAIN PreStageNames : stageActions[PreStageNames[i]] # <<>>})

SourceGiven == stageActions["Source"] = <<OtherAction("sourceAction")>>

SynthGiven == stageActions["Build"] = <<OtherAction("synthAction")>>

(***************************************************************************)
(* C16: after construction and any sequence of addStage calls the stage    *)
(* list is the stages the codePipeline brought, then Source if a           *)
(* sourceAction was given, Build if a synthAction was given,               *)
(* UpdatePipeline, Assets, then the stages added through addStage in call  *)
(* order; Assets precedes every added stage, whenever the first            *)
(* addPublishAssetAction call arrives.                                     *)
(***************************************************************************)
C16_StageOrder ==
  pc = "ready" =>
    /\ stages =
         SubSeq(PreStageNames, 1, ExistingStages)
           \o (IF SourceGiven THEN <<"Source">> ELSE <<>>)
           \o (IF SynthGiven THEN <<"Build">> ELSE <<>>)
           \o <<"UpdatePipeline", "Assets">>
           \o SubSeq(UserStageNames, 1, userStages)
    /\ \A i \in DOMAIN stages, j \in DOMAIN stages :
         (stages[i] = "Assets" /\ stages[j] \in Range(UserStageNames)) => i < j

\* A codePipeline of 2 stages and a synthAction, two stages added, and only
\* then the first asset published.
C16_Witness ==
  /\ pc = "ready"
  /\ last.op = "publishAsset"
  /\ Len(history) = 1
  /\ Len(stageActions["Assets"]) = 1
  /\ stages = <<"Pre1", "Pre2", "Build", "UpdatePipeline", "Assets", "S1", "S2">>

(***************************************************************************)
(* C17: validation returns exactly one error for every stack that has an   *)
(* entry in the output artifact registry and no deploy action anywhere in  *)
(* the pipeline, and none for a stack that is deployed in the pipeline or  *)
(* has no entry, whether stackOutput was called before or after the deploy *)
(* action was added.                                                       *)
(***************************************************************************)
isOutputError(f) == f.text = "Stack is not deployed in this pipeline"

outputErrors == SelectSeq(ret, isOutputError)

C17_RequestedOutputsDeployed ==
  validated =>
    LET sa == stackActions
        errs == outputErrors
    IN  /\ \A u \in Units :
             Cardinality({k \in DOMAIN errs : errs[k].stack = u})
               = IF outputArtifacts[u] # 0 /\ Deploying(sa, u) = {} THEN 1 ELSE 0
        /\ \A k \in DOMAIN ret : isOutputError(ret[k]) \/ isOrderError(ret[k])

\* Outputs requested of all three stacks, of which only one is deployed:
\* one error for each of the other two, none for the deployed one.
C17_Witness ==
  /\ validated
  /\ \A u \in Units : outputArtifacts[u] # 0
  /\ LET sa == stackActions IN
       /\ Len(sa) = 1
       /\ Len(outputErrors) = 2
       /\ \A k \in DOMAIN outputErrors : outputErrors[k].stack # sa[1].stackArtifactId

(***************************************************************************)
(* C18 as stated: in every state reachable by any interleaving of          *)
(* addPublishAssetAction and removeAssetsStageIfEmpty calls, every         *)
(* PublishAssetsAction of the publishers registry is an action of the      *)
(* Assets stage, and the Assets stage is in the pipeline's stage list.     *)
(***************************************************************************)
C18_NoOrphanedPublisher ==
  \A a \in AssetIds :
    publishers[a] # 0 =>
      /\ PublishRef(publishers[a]) \in Range(stageActions["Assets"])
      /\ "Assets" \in Range(stages)

(***************************************************************************)
(* C19: when a unit is deployed by several deploy actions, every           *)
(* dependency edge onto it is resolved to the first of them in flattened   *)
(* pipeline order only: for every dependent stack x and every such unit y  *)
(* the violations naming x and y are exactly the edges from actions of x   *)
(* onto y for which the first action of y does not execute strictly before *)
(* the dependent is prepared, one violation each, whatever the run orders  *)
(* of the later actions of y.                                              *)
(***************************************************************************)
\* The edges from deploy actions of stack x onto unit y.
EdgesOnto(sa, x, y) ==
  {e \in Edges(sa) : sa[e[1]].stackName = x /\ DepId(sa, e) = y}

\* Unit y is deployed by more than one deploy action.
DeployedAgain(sa, y) == Cardinality(Deploying(sa, y)) >= 2

C19_FirstDeploymentDecides ==
  validated =>
    LET sa == stackActions
        errs == orderErrors
    IN  \A y \in Units :
          DeployedAgain(sa, y) =>
            LET d == sa[FirstDeploying(sa, y)] IN
              \A x \in Units :
                Reported(errs, x, y) =
                  Cardinality({e \in EdgesOnto(sa, x, y) :
                                 ~(d.executeRunOrder < sa[e[1]].prepareRunOrder)})

\* A deployed in run order 1 and again in run order 2, and B, prepared in
\* run order 2, depending on A: the second deployment of A alone would be a
\* violation, and none is reported.
C19_Witness ==
  /\ validated
  /\ ret = <<>>
  /\ LET sa == stackActions IN
       /\ Len(sa) = 3
       /\ sa[1].stackArtifactId = "A"
       /\ sa[1].executeRunOrder = 1
       /\ sa[2].stackArtifactId = "A"
       /\ sa[2].executeRunOrder = 2
       /\ sa[3].stackArtifactId = "B"
       /\ sa[3].dependencyStackArtifactIds = <<"A">>
       /\ sa[3].prepareRunOrder = 2

====
